---- MODULE Spec2Model ----
(***************************************************************************)
(* The symbol resolver of python-hover's Python helper                     *)
(* (src/extension/python-helper/resolver.py), as a state machine.          *)
(*                                                                         *)
(* Text is kept as the sequence of its dot-separated segments: the text    *)
(* "os.path.join" is <<"os", "path", "join">>, so path.split(".") and      *)
(* ".".join(parts) are the two directions of that correspondence, and      *)
(* "." in text  is  Len(text) > 1.  An optional value (None or a value) is *)
(* the empty set or a singleton.                                           *)
(*                                                                         *)
(* The interpreter the resolver runs in is a fixed small world: a module   *)
(* registry (sys.modules), the builtins namespace, a handful of objects    *)
(* with the attributes introspection reads, and the loaders of the modules *)
(* that are not yet in the registry.                                       *)
(***************************************************************************)
EXTENDS Integers, Sequences, FiniteSets, TLC

\* Longest dotted path a request may have (segments).
MaxSegs == 3

None == {}
Some(v) == {v}

\* The identifier segments requests are built from.
Segments ==
  {"builtins", "os", "path", "join", "open", "str", "len", "OSError",
   "error", "True", "pkg"}

RECURSIVE SeqsUpTo(_)
SeqsUpTo(n) ==
  IF n = 0 THEN {<<>>}
  ELSE LET shorter == SeqsUpTo(n - 1)
       IN  shorter \cup {Append(s, x) : s \in {t \in shorter : Len(t) = n - 1}, x \in Segments}

\* Every request: a dotted path of 1..MaxSegs segments.
Paths == SeqsUpTo(MaxSegs) \ {<<>>}

Prefix(parts, n) == SubSeq(parts, 1, n)
Remainder(parts, n) == SubSeq(parts, n + 1, Len(parts))

(***************************************************************************)
(* The world: objects.                                                     *)
(***************************************************************************)

\* keyword.kwlist, as far as the segments go ("True" is a name of the
\* builtins namespace as well), and keyword.iskeyword.
kwlist == {"True"}

\* A resolver without the keyword check.
iskeyword_unchecked(path) == FALSE

iskeyword(path) == Len(path) = 1 /\ path[1] \in kwlist

\* What introspection reads off each object.  ismodule: inspect.ismodule;
\* name: a module's __name__; module: __module__ (None when the attribute is
\* missing); qualname: __qualname__ (None when missing); sig: what
\* inspect.signature does (yields a text, or the exception class it raises);
\* doc: what inspect.getdoc does (a text, None, or the exception class).
Obj(ismodule, name, module, qualname, callable, isclass, isexc, sig, doc) ==
  [ismodule |-> ismodule, name |-> name, module |-> module, qualname |-> qualname,
   callable |-> callable, isclass |-> isclass, isexc |-> isexc, sig |-> sig, doc |-> doc]

Module(name, doc) == Obj(TRUE, name, None, None, FALSE, FALSE, FALSE, "none", doc)
Function(module, qualname, doc) ==
  Obj(FALSE, <<>>, module, Some(qualname), TRUE, FALSE, FALSE, "text", doc)
Class(module, qualname, isexc, sig, doc) ==
  Obj(FALSE, <<>>, Some(module), Some(qualname), TRUE, TRUE, isexc, sig, doc)
Instance(module, callable, sig, doc) ==
  Obj(FALSE, <<>>, module, None, callable, FALSE, FALSE, sig, doc)

ObjectTable ==
  [ mod_builtins   |-> Module(<<"builtins">>, "text"),
    mod_os         |-> Module(<<"os">>, "text"),
    mod_posixpath  |-> Module(<<"posixpath">>, "text"),
    mod_posix      |-> Module(<<"posix">>, "text"),
    mod_io         |-> Module(<<"io">>, "text"),
    mod_pkg        |-> Module(<<"pkg">>, "none"),
    \* builtins: str, str.join (a method descriptor has no __module__), len,
    \* open (which io defines), OSError (inspect.signature raises
    \* ValueError on it), True
    cls_str        |-> Class(<<"builtins">>, <<"str">>, FALSE, "text", "text"),
    meth_str_join  |-> Function(None, <<"str", "join">>, "text"),
    fn_len         |-> Function(Some(<<"builtins">>), <<"len">>, "text"),
    fn_open        |-> Function(Some(<<"io">>), <<"open">>, "text"),
    cls_OSError    |-> Class(<<"builtins">>, <<"OSError">>, TRUE, "ValueError", "text"),
    val_True       |-> Instance(None, FALSE, "none", "text"),
    \* os.path.join, which posixpath defines, and os.open, which posix defines
    fn_join        |-> Function(Some(<<"posixpath">>), <<"join">>, "text"),
    fn_os_open     |-> Function(Some(<<"posix">>), <<"open">>, "text"),
    \* the third-party package: a function without docstring, a callable
    \* whose signature cannot be inspected (RuntimeError), an exception class
    \* (inspect.signature raises TypeError on it), an object whose __doc__
    \* raises RuntimeError
    fn_pkg_join    |-> Function(Some(<<"pkg">>), <<"join">>, "none"),
    obj_pkg_len    |-> Instance(Some(<<"pkg">>), TRUE, "RuntimeError", "text"),
    cls_pkg_error  |-> Class(<<"pkg">>, <<"error">>, TRUE, "TypeError", "text"),
    obj_pkg_doc    |-> Instance(Some(<<"pkg">>), FALSE, "none", "RuntimeError") ]

Objects == DOMAIN ObjectTable

\* The attributes each object has: <<object, segment, value>>.  A value that
\* is an exception class is an attribute whose lookup raises it rather than
\* AttributeError (a lazily computed attribute of the third-party package).
\* os.error is the builtin OSError.  pkg re-exports the builtin str and
\* the builtins module, and its site hook has installed its callable in the
\* builtins namespace under the name "path".
Attrs ==
  { <<"mod_builtins", "str", "cls_str">>, <<"mod_builtins", "len", "fn_len">>,
    <<"mod_builtins", "open", "fn_open">>, <<"mod_builtins", "OSError", "cls_OSError">>,
    <<"mod_builtins", "True", "val_True">>, <<"mod_builtins", "path", "obj_pkg_len">>,
    <<"cls_str", "join", "meth_str_join">>,
    <<"mod_os", "path", "mod_posixpath">>, <<"mod_os", "open", "fn_os_open">>,
    <<"mod_os", "error", "cls_OSError">>,
    <<"mod_posixpath", "join", "fn_join">>, <<"mod_posixpath", "os", "mod_os">>,
    <<"mod_posix", "open", "fn_os_open">>, <<"mod_posix", "error", "cls_OSError">>,
    <<"mod_io", "open", "fn_open">>,
    <<"mod_pkg", "join", "fn_pkg_join">>, <<"mod_pkg", "str", "cls_str">>,
    <<"mod_pkg", "len", "obj_pkg_len">>, <<"mod_pkg", "error", "cls_pkg_error">>,
    <<"mod_pkg", "builtins", "mod_builtins">>, <<"mod_pkg", "pkg", "obj_pkg_doc">>,
    <<"mod_pkg", "open", "RuntimeError">> }

\* Exception classes: everything but SystemExit derives from Exception, so
\* an `except Exception` clause catches it.
IsException(cls) == cls # "SystemExit"

\* getattr(obj, part): the attribute, or the exception class raised.
py_getattr(obj, part) ==
  LET hits == {t \in Attrs : t[1] = obj /\ t[2] = part}
  IN  IF hits = {} THEN "AttributeError" ELSE (CHOOSE t \in hits : TRUE)[3]

Raises(v) == v \notin Objects

\* hasattr(builtins, name)
hasattr_builtins(name) == ~Raises(py_getattr("mod_builtins", name))

(***************************************************************************)
(* The world: the module registry and the loaders.                         *)
(***************************************************************************)

\* sys.modules once resolver.py itself has been imported (it imports
\* builtins, io and os, and os registers its path module under two names).
InitialModules ==
  ( <<"builtins">> :> "mod_builtins" ) @@ ( <<"os">> :> "mod_os" ) @@
  ( <<"os", "path">> :> "mod_posixpath" ) @@ ( <<"posixpath">> :> "mod_posixpath" ) @@
  ( <<"posix">> :> "mod_posix" ) @@ ( <<"io">> :> "mod_io" )

\* What running the loader of a module that is not yet registered does: the
\* module object it yields, or the exception class the module's own
\* top-level code raises.  A name with no entry has no loader
\* (ModuleNotFoundError).  pkg.builtins is an alias the package's importer
\* serves: it binds the name to the builtins module object.  The top-level
\* code of pkg.OSError never returns (Hangs).
Hangs == "Hangs"

Loaders ==
  ( <<"pkg">> :> "mod_pkg" ) @@
  ( <<"pkg", "builtins">> :> "mod_builtins" ) @@
  ( <<"pkg", "path">> :> "RuntimeError" ) @@
  ( <<"pkg", "os">> :> "SystemExit" ) @@
  ( <<"pkg", "OSError">> :> Hangs )

\* Packages: the modules that can have submodules.
IsPackage(m) == m = "mod_pkg"

\* The value of body(v) for v the value of e, with e evaluated once.
Bind(e, body(_)) == CHOOSE r \in {body(v) : v \in {e}} : TRUE

\* An import system that leaves a name registered (bound to the package)
\* when the loader of the name raised.
load_child_left_registered(name, parent) ==
  IF Raises(parent.value) THEN parent
  ELSE IF ~IsPackage(parent.value) \/ name \notin DOMAIN Loaders
       THEN [value |-> "ModuleNotFoundError", mods |-> parent.mods]
  ELSE IF Raises(Loaders[name])
       THEN [value |-> Loaders[name], mods |-> (name :> parent.value) @@ parent.mods]
  ELSE [value |-> Loaders[name], mods |-> (name :> Loaders[name]) @@ parent.mods]

\* The loader of `name` runs, its parent package being `parent`, a result of
\* import_module.
load_child(name, parent) ==
  IF Raises(parent.value) THEN parent
  ELSE IF ~IsPackage(parent.value) \/ name \notin DOMAIN Loaders
       THEN [value |-> "ModuleNotFoundError", mods |-> parent.mods]
  ELSE IF Raises(Loaders[name])
       THEN [value |-> Loaders[name], mods |-> parent.mods]
  ELSE [value |-> Loaders[name], mods |-> (name :> Loaders[name]) @@ parent.mods]

\* importlib.import_module(name) against the registry `mods`:
\* [value |-> the module or the exception class raised, mods |-> the
\* registry afterwards].  A registered name is returned as it is; otherwise
\* the parent is imported first (which registers it), then the loader of the
\* name runs.
RECURSIVE import_module(_, _)
import_module(name, mods) ==
  IF name \in DOMAIN mods THEN [value |-> mods[name], mods |-> mods]
  ELSE IF Len(name) = 1
       THEN IF name \notin DOMAIN Loaders
            THEN [value |-> "ModuleNotFoundError", mods |-> mods]
            ELSE IF Raises(Loaders[name]) THEN [value |-> Loaders[name], mods |-> mods]
            ELSE [value |-> Loaders[name], mods |-> (name :> Loaders[name]) @@ mods]
  ELSE Bind(import_module(Prefix(name, Len(name) - 1), mods),
            LAMBDA parent : load_child(name, parent))

\* sys.builtin_module_names and sys.stdlib_module_names, as far as the world
\* goes.
builtin_module_names == {"builtins", "posix"}
stdlib_module_names == {"builtins", "posix", "os", "posixpath", "io", "zipimport"}

\* File paths are sequences of components.  str.lower on a component, and on
\* a path.
lower(c) == IF c = "LIB" THEN "lib" ELSE c
lower_path(p) == [k \in 1..Len(p) |-> lower(p[k])]

\* os.path.dirname(os.__file__).lower()
lib_path == <<"usr", "lib">>

\* What importlib.util.find_spec(root) does: it raises (a module registered
\* without __spec__), finds no spec (None), or yields a spec whose origin is
\* None (a namespace package) or a file path.
SpecResult(raises, found, origin) ==
  [raises |-> raises, found |-> found, origin |-> origin]

find_spec(root) ==
  IF root \in {"os", "posixpath", "io"}
  THEN SpecResult(FALSE, TRUE, Some(<<"usr", "lib", "file">>))
  ELSE IF root = "tkinter" THEN SpecResult(FALSE, TRUE, Some(<<"usr", "LIB", "file">>))
  ELSE IF root = "sitecustomize" THEN SpecResult(FALSE, TRUE, Some(<<"usr", "lib", "file">>))
  ELSE IF root = "zipimport" THEN SpecResult(FALSE, TRUE, Some(<<"frozen">>))
  ELSE IF root \in {"builtins", "posix"} THEN SpecResult(FALSE, TRUE, Some(<<"built-in">>))
  ELSE IF root = "pkg"
       THEN SpecResult(FALSE, TRUE, Some(<<"usr", "lib", "site-packages", "file">>))
  ELSE IF root = "dist"
       THEN SpecResult(FALSE, TRUE, Some(<<"opt", "dist-packages", "file">>))
  ELSE IF root = "local" THEN SpecResult(FALSE, TRUE, Some(<<"home", "file">>))
  ELSE IF root = "namespace" THEN SpecResult(FALSE, TRUE, None)
  ELSE IF root = "broken" THEN SpecResult(TRUE, FALSE, None)
  ELSE SpecResult(FALSE, FALSE, None)

\* `marker in origin` and origin.startswith(prefix), on paths.
contains(origin, marker) == \E k \in 1..Len(origin) : origin[k] = marker
startswith(origin, prefix) ==
  Len(origin) >= Len(prefix) /\ SubSeq(origin, 1, Len(prefix)) = prefix

(***************************************************************************)
(* The resolver's pure parts.                                              *)
(***************************************************************************)

\* A classifier whose fallback does not look for the third-party markers.
origin_is_stdlib_unmarked(found) ==
  /\ ~found.raises
  /\ found.found
  /\ found.origin # None
  /\ \A origin \in found.origin : startswith(lower_path(origin), lib_path)

\* The fallback of _is_stdlib, `found` being what find_spec did: false when
\* it raised, found no spec or no origin, or the lowered origin holds a
\* third-party marker; true when the lowered origin starts with lib_path.
origin_is_stdlib(found) ==
  /\ ~found.raises
  /\ found.found
  /\ found.origin # None
  /\ \A origin \in found.origin :
       /\ ~contains(lower_path(origin), "site-packages")
       /\ ~contains(lower_path(origin), "dist-packages")
       /\ startswith(lower_path(origin), lib_path)

\* _is_stdlib(module_name); `names` is hasattr(sys, "stdlib_module_names").
\* A module name that is None or empty is <<>>.
_is_stdlib(module_name, names) ==
  IF module_name = <<>> THEN FALSE
  ELSE IF module_name[1] \in builtin_module_names THEN TRUE
  ELSE IF names THEN module_name[1] \in stdlib_module_names
  ELSE origin_is_stdlib(find_spec(module_name[1]))

\* _traverse_attributes(obj, parts): the object reached, or the
\* exception class the first failing getattr raises.
RECURSIVE _traverse_attributes(_, _)
_traverse_attributes(obj, parts) ==
  IF parts = <<>> THEN obj
  ELSE Bind(py_getattr(obj, Head(parts)),
            LAMBDA attr : IF Raises(attr) THEN attr
                          ELSE _traverse_attributes(attr, Tail(parts)))

\* The text pydoc.help prints for a keyword, and the texts introspection
\* yields for an object.
HelpText(name) == <<"help", name>>
DocText(obj) == <<"doc", obj>>
SignatureText(obj) == <<"signature", obj>>

\* _describe_keyword(name)
_describe_keyword(name) ==
  [docstring |-> Some(HelpText(name)),
   signature |-> None,
   module    |-> <<"builtins">>,
   qualname  |-> name,
   kind      |-> "keyword",
   is_stdlib |-> TRUE]

\* A URL scheme without the exceptions page.
_get_stdlib_url_no_exceptions(module_name, qualname, obj) ==
  IF module_name = <<"builtins">> /\ ObjectTable[obj].isclass
  THEN [page |-> <<"stdtypes">>, anchor |-> qualname]
  ELSE IF module_name = <<"builtins">> /\ ObjectTable[obj].callable
  THEN IF Len(qualname) > 1
       THEN [page |-> <<"stdtypes">>, anchor |-> qualname]
       ELSE [page |-> <<"functions">>, anchor |-> qualname]
  ELSE [page |-> module_name, anchor |-> qualname]

\* _get_stdlib_url(module_name, qualname, obj): the page under the versioned
\* base and the anchor.
_get_stdlib_url(module_name, qualname, obj) ==
  IF module_name = <<"builtins">> /\ ObjectTable[obj].isclass
  THEN IF ObjectTable[obj].isexc
       THEN [page |-> <<"exceptions">>, anchor |-> qualname]
       ELSE [page |-> <<"stdtypes">>, anchor |-> qualname]
  ELSE IF module_name = <<"builtins">> /\ ObjectTable[obj].callable
  THEN IF Len(qualname) > 1
       THEN [page |-> <<"stdtypes">>, anchor |-> qualname]
       ELSE [page |-> <<"functions">>, anchor |-> qualname]
  ELSE [page |-> module_name, anchor |-> qualname]

\* The defining module _describe starts from: a module's own __name__, else
\* the object's __module__, else the module name used to reach it.
defined_or_access_module(obj, module_name) ==
  IF ObjectTable[obj].ismodule THEN ObjectTable[obj].name
  ELSE IF ObjectTable[obj].module # None
       THEN CHOOSE m \in ObjectTable[obj].module : TRUE
  ELSE module_name

\* The alias scan of _describe over sys.modules: "os.path" when it names the
\* same module object as final_module, else final_module.
better_alias(final_module, mods) ==
  IF /\ final_module \in DOMAIN mods
     /\ \E alias \in DOMAIN mods :
          /\ mods[alias] = mods[final_module]
          /\ alias # final_module
          /\ alias = <<"os", "path">>
  THEN <<"os", "path">>
  ELSE final_module

\* The module field of _describe.
final_module_of(obj, module_name, mods, names) ==
  Bind(defined_or_access_module(obj, module_name),
       LAMBDA final_module :
         IF final_module # <<>> /\ _is_stdlib(final_module, names)
         THEN better_alias(final_module, mods)
         ELSE final_module)

\* The signature field: absent unless the object is callable and
\* inspect.signature yields a text; ValueError and TypeError are swallowed,
\* any other exception class is raised (and is the value here).
signature_of(obj) ==
  IF ~ObjectTable[obj].callable THEN "absent"
  ELSE IF ObjectTable[obj].sig = "text" THEN "text"
  ELSE IF ObjectTable[obj].sig \in {"ValueError", "TypeError"} THEN "absent"
  ELSE ObjectTable[obj].sig

\* The qualname field: __qualname__, else the requested name.
qualname_of(obj, name) ==
  IF ObjectTable[obj].qualname # None
  THEN CHOOSE q \in ObjectTable[obj].qualname : TRUE
  ELSE name

\* A record whose URL is computed whatever the classification.
describe_record_url_always(obj, final_module, sig, qualname, names) ==
  [docstring |-> IF ObjectTable[obj].doc = "text" THEN Some(DocText(obj)) ELSE None,
   signature |-> IF sig = "text" THEN Some(SignatureText(obj)) ELSE None,
   module    |-> final_module,
   qualname  |-> qualname,
   is_stdlib |-> _is_stdlib(final_module, names),
   url       |-> Some(_get_stdlib_url(final_module, qualname, obj))]

\* The record _describe returns once the module, signature and qualname are
\* known.
describe_record(obj, final_module, sig, qualname, names) ==
  [docstring |-> IF ObjectTable[obj].doc = "text" THEN Some(DocText(obj)) ELSE None,
   signature |-> IF sig = "text" THEN Some(SignatureText(obj)) ELSE None,
   module    |-> final_module,
   qualname  |-> qualname,
   is_stdlib |-> _is_stdlib(final_module, names),
   url       |-> IF _is_stdlib(final_module, names)
                 THEN Some(_get_stdlib_url(final_module, qualname, obj))
                 ELSE None]

\* _describe(obj, module_name, name): the record, or [raised |-> C] when
\* inspect.signature or inspect.getdoc raises C.
_describe(obj, module_name, name, mods, names) ==
  IF signature_of(obj) \notin {"absent", "text"} THEN [raised |-> signature_of(obj)]
  ELSE IF ObjectTable[obj].doc \notin {"none", "text"} THEN [raised |-> ObjectTable[obj].doc]
  ELSE Bind(final_module_of(obj, module_name, mods, names),
            LAMBDA final_module :
              describe_record(obj, final_module, signature_of(obj),
                              qualname_of(obj, name), names))

\* A strip that does not look the remainder up in the builtins namespace.
normalize_symbol_unchecked(symbol_name) ==
  IF Len(symbol_name) >= 2 /\ symbol_name[1] = "builtins"
  THEN Tail(symbol_name)
  ELSE symbol_name

\* The "builtins." prefix strip of resolve_symbol.
normalize_symbol(symbol_name) ==
  IF /\ Len(symbol_name) >= 2
     /\ symbol_name[1] = "builtins"
     /\ hasattr_builtins(symbol_name[2])
  THEN Tail(symbol_name)
  ELSE symbol_name

\* str(e) of the exceptions that reach resolve_symbol's handler.
could_not_resolve(path) == [text |-> "Could not resolve", path |-> path]
fault_text(cls) == [text |-> cls, path |-> <<>>]

\* The handler of resolve_symbol: `except Exception as e` returns the error
\* record; any other exception leaves resolve_symbol.
handle(cls, text) ==
  IF IsException(cls) THEN [error |-> text] ELSE [raised |-> cls]

\* `obj` of _resolve_dotted_path while no traversal has come to an object.
NoObject == "none"

\* What one strategy attempt comes to: kind "hung" (the load never
\* returns), "failed" (the load raised an Exception), "escaped" (it raised
\* something else), "missing"
\* (AttributeError), "faulted" (another exception, which reaches the handler
\* of resolve_symbol), "described"; the registry afterwards; what
\* resolve_symbol returns if the attempt ends the call; and the object the
\* traversal came to.
Outcome(kind, mods, result, obj) ==
  [kind |-> kind, mods |-> mods, result |-> result, obj |-> obj]

\* `return _describe(obj, module_path, path)` inside `try ... except
\* AttributeError: pass`, obj being what the traversal came to.
describe_reached(obj, module_name, name, mods, names) ==
  IF obj = "AttributeError" THEN Outcome("missing", mods, [pending |-> TRUE], NoObject)
  ELSE IF Raises(obj) THEN Outcome("faulted", mods, handle(obj, fault_text(obj)), NoObject)
  ELSE Bind(_describe(obj, module_name, name, mods, names),
            LAMBDA d :
              IF "raised" \notin DOMAIN d THEN Outcome("described", mods, d, obj)
              ELSE IF d.raised = "AttributeError"
                   THEN Outcome("missing", mods, [pending |-> TRUE], obj)
              ELSE Outcome("faulted", mods, handle(d.raised, fault_text(d.raised)), obj))

\* The body of the loop of import descent once import_module has returned
\* or raised (`loaded` is its result).
after_import(path, i, loaded, names) ==
  IF loaded.value = Hangs THEN Outcome("hung", loaded.mods, [pending |-> TRUE], NoObject)
  ELSE IF Raises(loaded.value)
  THEN Outcome(IF IsException(loaded.value) THEN "failed" ELSE "escaped",
               loaded.mods, handle(loaded.value, fault_text(loaded.value)), NoObject)
  ELSE Bind(_traverse_attributes(loaded.value, Remainder(path, i)),
            LAMBDA obj : describe_reached(obj, Prefix(path, i), path, loaded.mods, names))

\* Strategy A, one iteration: the prefix of i segments.
import_descent(path, i, mods, names) ==
  Bind(import_module(Prefix(path, i), mods),
       LAMBDA loaded : after_import(path, i, loaded, names))

\* Strategy B: the path from the builtins namespace; kind "absent" when the
\* root is no builtin.
builtin_root(path, mods, names) ==
  IF ~hasattr_builtins(path[1]) THEN Outcome("absent", mods, [pending |-> TRUE], NoObject)
  ELSE Bind(_traverse_attributes("mod_builtins", path),
            LAMBDA obj : describe_reached(obj, <<"builtins">>, path, mods, names))

(***************************************************************************)
(* The world of identify_at_position: source texts and what ast.parse      *)
(* makes of them.                                                          *)
(***************************************************************************)

\* Largest line and column a cursor is put at.
MaxLine == 3
MaxCol == 13

\* A syntax node as the code reads it: its class, the type of a Constant's
\* value, the name of a definition, whether it has lineno and end_lineno, its
\* position, the node it is a child of (ast.iter_child_nodes; 0 for the root)
\* and its fields in order.  A field holds a list of nodes, a node, or
\* something else.  Nodes are numbered in the order of ast.walk.
Field(tag, items) == [tag |-> tag, items |-> items]

Node(kind, value, name, pos, lineno, col_offset, end_lineno, end_col_offset, parent, fields) ==
  [kind |-> kind, value |-> value, name |-> name, pos |-> pos,
   lineno |-> lineno, col_offset |-> col_offset,
   end_lineno |-> end_lineno, end_col_offset |-> end_col_offset,
   parent |-> parent, fields |-> fields]

\* The parsable sources, each with list(ast.walk(ast.parse(source))).
Trees ==
  [
    \* 42
    bare |->
      << Node("Module", "", "", FALSE, 0, 0, 0, 0, 0,
           <<Field("list", <<2>>), Field("list", <<>>)>>),
         Node("Expr", "", "", TRUE, 1, 0, 1, 2, 1,
           <<Field("node", <<3>>)>>),
         Node("Constant", "int", "", TRUE, 1, 0, 1, 2, 2,
           <<Field("other", <<>>), Field("other", <<>>)>>) >>,
    \* t = 1j, True
    \* u = None, 's'
    \* v = [1, 2.5]
    lit |->
      << Node("Module", "", "", FALSE, 0, 0, 0, 0, 0,
           <<Field("list", <<2, 3, 4>>), Field("list", <<>>)>>),
         Node("Assign", "", "", TRUE, 1, 0, 1, 12, 1,
           <<Field("list", <<5>>), Field("node", <<6>>), Field("other", <<>>)>>),
         Node("Assign", "", "", TRUE, 2, 0, 2, 13, 1,
           <<Field("list", <<7>>), Field("node", <<8>>), Field("other", <<>>)>>),
         Node("Assign", "", "", TRUE, 3, 0, 3, 12, 1,
           <<Field("list", <<9>>), Field("node", <<10>>), Field("other", <<>>)>>),
         Node("Name", "", "", TRUE, 1, 0, 1, 1, 2,
           <<Field("other", <<>>), Field("node", <<19>>)>>),
         Node("Tuple", "", "", TRUE, 1, 4, 1, 12, 2,
           <<Field("list", <<12, 13>>), Field("node", <<22>>)>>),
         Node("Name", "", "", TRUE, 2, 0, 2, 1, 3,
           <<Field("other", <<>>), Field("node", <<19>>)>>),
         Node("Tuple", "", "", TRUE, 2, 4, 2, 13, 3,
           <<Field("list", <<16, 17>>), Field("node", <<22>>)>>),
         Node("Name", "", "", TRUE, 3, 0, 3, 1, 4,
           <<Field("other", <<>>), Field("node", <<19>>)>>),
         Node("List", "", "", TRUE, 3, 4, 3, 12, 4,
           <<Field("list", <<20, 21>>), Field("node", <<22>>)>>),
         Node("Store", "", "", FALSE, 0, 0, 0, 0, 9,
           <<>>),
         Node("Constant", "complex", "", TRUE, 1, 4, 1, 6, 6,
           <<Field("other", <<>>), Field("other", <<>>)>>),
         Node("Constant", "bool", "", TRUE, 1, 8, 1, 12, 6,
           <<Field("other", <<>>), Field("other", <<>>)>>),
         Node("Load", "", "", FALSE, 0, 0, 0, 0, 10,
           <<>>),
         Node("Store", "", "", FALSE, 0, 0, 0, 0, 9,
           <<>>),
         Node("Constant", "None", "", TRUE, 2, 4, 2, 8, 8,
           <<Field("other", <<>>), Field("other", <<>>)>>),
         Node("Constant", "str", "", TRUE, 2, 10, 2, 13, 8,
           <<Field("other", <<>>), Field("other", <<>>)>>),
         Node("Load", "", "", FALSE, 0, 0, 0, 0, 10,
           <<>>),
         Node("Store", "", "", FALSE, 0, 0, 0, 0, 9,
           <<>>),
         Node("Constant", "int", "", TRUE, 3, 5, 3, 6, 10,
           <<Field("other", <<>>), Field("other", <<>>)>>),
         Node("Constant", "float", "", TRUE, 3, 8, 3, 11, 10,
           <<Field("other", <<>>), Field("other", <<>>)>>),
         Node("Load", "", "", FALSE, 0, 0, 0, 0, 10,
           <<>>) >>,
    \* s = f'{x}'
    fstr |->
      << Node("Module", "", "", FALSE, 0, 0, 0, 0, 0,
           <<Field("list", <<2>>), Field("list", <<>>)>>),
         Node("Assign", "", "", TRUE, 1, 0, 1, 10, 1,
           <<Field("list", <<3>>), Field("node", <<4>>), Field("other", <<>>)>>),
         Node("Name", "", "", TRUE, 1, 0, 1, 1, 2,
           <<Field("other", <<>>), Field("node", <<5>>)>>),
         Node("JoinedStr", "", "", TRUE, 1, 4, 1, 10, 2,
           <<Field("list", <<6>>)>>),
         Node("Store", "", "", FALSE, 0, 0, 0, 0, 3,
           <<>>),
         Node("FormattedValue", "", "", TRUE, 1, 4, 1, 10, 4,
           <<Field("node", <<7>>), Field("other", <<>>), Field("other", <<>>)>>),
         Node("Name", "", "", TRUE, 1, 7, 1, 8, 6,
           <<Field("other", <<>>), Field("node", <<8>>)>>),
         Node("Load", "", "", FALSE, 0, 0, 0, 0, 7,
           <<>>) >>,
    \* d = {1: {2}}
    coll |->
      << Node("Module", "", "", FALSE, 0, 0, 0, 0, 0,
           <<Field("list", <<2>>), Field("list", <<>>)>>),
         Node("Assign", "", "", TRUE, 1, 0, 1, 12, 1,
           <<Field("list", <<3>>), Field("node", <<4>>), Field("other", <<>>)>>),
         Node("Name", "", "", TRUE, 1, 0, 1, 1, 2,
           <<Field("other", <<>>), Field("node", <<5>>)>>),
         Node("Dict", "", "", TRUE, 1, 4, 1, 12, 2,
           <<Field("list", <<6>>), Field("list", <<7>>)>>),
         Node("Store", "", "", FALSE, 0, 0, 0, 0, 3,
           <<>>),
         Node("Constant", "int", "", TRUE, 1, 5, 1, 6, 4,
           <<Field("other", <<>>), Field("other", <<>>)>>),
         Node("Set", "", "", TRUE, 1, 8, 1, 11, 4,
           <<Field("list", <<8>>)>>),
         Node("Constant", "int", "", TRUE, 1, 9, 1, 10, 7,
           <<Field("other", <<>>), Field("other", <<>>)>>) >>,
    \* class O:
    \*  class I:
    \*   def m(s): 0
    nest |->
      << Node("Module", "", "", FALSE, 0, 0, 0, 0, 0,
           <<Field("list", <<2>>), Field("list", <<>>)>>),
         Node("ClassDef", "", "O", TRUE, 1, 0, 3, 13, 1,
           <<Field("other", <<>>), Field("list", <<>>), Field("list", <<>>), Field("list", <<3>>), Field("list", <<>>)>>),
         Node("ClassDef", "", "I", TRUE, 2, 1, 3, 13, 2,
           <<Field("other", <<>>), Field("list", <<>>), Field("list", <<>>), Field("list", <<4>>), Field("list", <<>>)>>),
         Node("FunctionDef", "", "m", TRUE, 3, 2, 3, 13, 3,
           <<Field("other", <<>>), Field("node", <<5>>), Field("list", <<6>>), Field("list", <<>>), Field("other", <<>>), Field("other", <<>>)>>),
         Node("arguments", "", "", FALSE, 0, 0, 0, 0, 4,
           <<Field("list", <<>>), Field("list", <<7>>), Field("other", <<>>), Field("list", <<>>), Field("list", <<>>), Field("other", <<>>), Field("list", <<>>)>>),
         Node("Expr", "", "", TRUE, 3, 12, 3, 13, 4,
           <<Field("node", <<8>>)>>),
         Node("arg", "", "", TRUE, 3, 8, 3, 9, 5,
           <<Field("other", <<>>), Field("other", <<>>), Field("other", <<>>)>>),
         Node("Constant", "int", "", TRUE, 3, 12, 3, 13, 6,
           <<Field("other", <<>>), Field("other", <<>>)>>) >>,
    \* async def a():
    \*  def b(): 0
    asyn |->
      << Node("Module", "", "", FALSE, 0, 0, 0, 0, 0,
           <<Field("list", <<2>>), Field("list", <<>>)>>),
         Node("AsyncFunctionDef", "", "a", TRUE, 1, 0, 2, 11, 1,
           <<Field("other", <<>>), Field("node", <<3>>), Field("list", <<4>>), Field("list", <<>>), Field("other", <<>>), Field("other", <<>>)>>),
         Node("arguments", "", "", FALSE, 0, 0, 0, 0, 2,
           <<Field("list", <<>>), Field("list", <<>>), Field("other", <<>>), Field("list", <<>>), Field("list", <<>>), Field("other", <<>>), Field("list", <<>>)>>),
         Node("FunctionDef", "", "b", TRUE, 2, 1, 2, 11, 2,
           <<Field("other", <<>>), Field("node", <<5>>), Field("list", <<6>>), Field("list", <<>>), Field("other", <<>>), Field("other", <<>>)>>),
         Node("arguments", "", "", FALSE, 0, 0, 0, 0, 4,
           <<Field("list", <<>>), Field("list", <<>>), Field("other", <<>>), Field("list", <<>>), Field("list", <<>>), Field("other", <<>>), Field("list", <<>>)>>),
         Node("Expr", "", "", TRUE, 2, 10, 2, 11, 4,
           <<Field("node", <<7>>)>>),
         Node("Constant", "int", "", TRUE, 2, 10, 2, 11, 6,
           <<Field("other", <<>>), Field("other", <<>>)>>) >>,
    \* x = "aa...a"; y = (     (the string literal has 10010 characters)
    \* 1.5,)
    wide |->
      << Node("Module", "", "", FALSE, 0, 0, 0, 0, 0,
           <<Field("list", <<2, 3>>), Field("list", <<>>)>>),
         Node("Assign", "", "", TRUE, 1, 0, 1, 10016, 1,
           <<Field("list", <<4>>), Field("node", <<5>>), Field("other", <<>>)>>),
         Node("Assign", "", "", TRUE, 1, 10018, 2, 5, 1,
           <<Field("list", <<6>>), Field("node", <<7>>), Field("other", <<>>)>>),
         Node("Name", "", "", TRUE, 1, 0, 1, 1, 2,
           <<Field("other", <<>>), Field("node", <<9>>)>>),
         Node("Constant", "str", "", TRUE, 1, 4, 1, 10016, 2,
           <<Field("other", <<>>), Field("other", <<>>)>>),
         Node("Name", "", "", TRUE, 1, 10018, 1, 10019, 3,
           <<Field("other", <<>>), Field("node", <<9>>)>>),
         Node("Tuple", "", "", TRUE, 1, 10022, 2, 5, 3,
           <<Field("list", <<10>>), Field("node", <<11>>)>>),
         Node("Store", "", "", FALSE, 0, 0, 0, 0, 6,
           <<>>),
         Node("Store", "", "", FALSE, 0, 0, 0, 0, 6,
           <<>>),
         Node("Constant", "float", "", TRUE, 2, 0, 2, 3, 7,
           <<Field("other", <<>>), Field("other", <<>>)>>),
         Node("Load", "", "", FALSE, 0, 0, 0, 0, 7,
           <<>>) >> ]

\* The sources ast.parse raises on, with the exception class: a malformed
\* definition, and an expression nested too deeply for the parser.
ParseErrors == [bad |-> "SyntaxError", deep |-> "MemoryError"]

Sources == DOMAIN Trees \cup DOMAIN ParseErrors

(***************************************************************************)
(* The state machine: one process that serves resolve requests one after   *)
(* the other.                                                              *)
(***************************************************************************)
VARIABLES
  sys_modules,   \* sys.modules: module name -> module object
  stdlib_names,  \* hasattr(sys, "stdlib_module_names") in this interpreter
  pc,            \* where the current resolve_symbol call is
  request,       \* the argument of the current call
  path,          \* `path` of _resolve_dotted_path (the argument, normalized)
  i,             \* the loop index of import descent
  obj,           \* `obj` of _resolve_dotted_path: what the traversal came to
  result,        \* what the call returned (or the exception that left it)
  prev,          \* the result of the preceding call, when it had the same argument
  trace,         \* the loads and traversals of the current call, in order
  \* safe_import_module (safe_import.py)
  si_pc,         \* where the call of safe_import_module is
  module_name,   \* its argument
  thread,        \* the worker thread t: "unstarted", "running" or "finished"
  cell,          \* result[0]
  timed_out,     \* t.join(timeout) returned with the worker still running
  is_alive,      \* what t.is_alive() returned at line 21
  si_return,     \* what safe_import_module returned
  outcome,       \* what importlib.import_module did in the worker
  \* identify_at_position (identifier.py)
  loc_pc,        \* where the call of identify_at_position is
  source,        \* its arguments: the source text,
  line,          \*   the line (1-based)
  col,           \*   and the column (0-based) of the cursor
  tree,          \* ast.walk(tree): the nodes in walk order (<<>>: no tree)
  parents,       \* the parents map: node -> node
  visit,         \* the position of the scan loop in the walk
  target_node,   \* target_node (0: None)
  min_range,     \* min_range (None: float("inf"))
  considered,    \* the nodes the scan let through to the size comparison
  loc_result,    \* what identify_at_position returned (or the exception)
  \* resolve_symbol called from several threads of one process
  calls,         \* thread -> the call of resolve_symbol it makes
  sys_stdout,    \* the stream sys.stdout is bound to
  streams        \* stream -> the texts written to it, in order

resolver_vars == <<stdlib_names, pc, request, path, i, obj, result, prev, trace>>

importer_vars ==
  <<si_pc, module_name, thread, cell, timed_out, is_alive, si_return, outcome>>

locator_vars ==
  <<loc_pc, source, line, col, tree, parents, visit, target_node, min_range,
    considered, loc_result>>

thread_vars == <<calls, sys_stdout, streams>>

vars == <<sys_modules, resolver_vars, importer_vars, locator_vars, thread_vars>>

Pending == [pending |-> TRUE]

\* No call of safe_import_module has been made.
InitImporter ==
  /\ si_pc = "idle"
  /\ module_name = <<>>
  /\ thread = "unstarted"
  /\ cell = None
  /\ timed_out = FALSE
  /\ is_alive = FALSE
  /\ si_return = None
  /\ outcome = "pending"

\* No call of identify_at_position has been made.
InitLocator ==
  /\ loc_pc = "idle"
  /\ source = "bare"
  /\ line = 1
  /\ col = 0
  /\ tree = <<>>
  /\ parents = <<>>
  /\ visit = 1
  /\ target_node = 0
  /\ min_range = None
  /\ considered = {}
  /\ loc_result = [pending |-> TRUE]

\* The threads that call resolve_symbol.
Threads == {1, 2}

\* Streams: the one standard output is bound to when the process starts (the
\* console, or a file the host has redirected it to), and the io.StringIO
\* each call of _describe_keyword makes.
Console == [kind |-> "console", owner |-> 0]
Redirected == [kind |-> "file", owner |-> 0]
Capture(t) == [kind |-> "capture", owner |-> t]
Streams == {Console, Redirected} \cup {Capture(t) : t \in Threads}

\* A thread that has not called resolve_symbol.
NoCall ==
  [pc |-> "idle", request |-> <<>>, path |-> <<>>, i |-> 0, obj |-> NoObject,
   seen |-> {}, before |-> Console, original |-> Console, help |-> "pending",
   result |-> Pending]

\* No thread has called resolve_symbol; standard output is the console.
InitThreads ==
  /\ calls = [t \in Threads |-> NoCall]
  /\ sys_stdout = Console
  /\ streams = [s \in Streams |-> <<>>]

Init ==
  /\ InitImporter
  /\ InitLocator
  /\ InitThreads
  /\ sys_modules = InitialModules
  /\ stdlib_names \in BOOLEAN
  /\ pc = "idle"
  /\ request = <<>>
  /\ path = <<>>
  /\ i = 0
  /\ obj = NoObject
  /\ result = Pending
  /\ prev = Pending
  /\ trace = <<>>

\* A resolve_symbol that passes the path on as it came.
Enter_unstripped(symbol_name, before) ==
  /\ request' = symbol_name
  /\ prev' = before
  /\ result' = Pending
  /\ obj' = NoObject
  /\ trace' = <<>>
  /\ IF iskeyword(symbol_name)
     THEN /\ pc' = "keyword"
          /\ path' = symbol_name
          /\ i' = 0
     ELSE /\ pc' = "descent"
          /\ path' = symbol_name
          /\ i' = Len(path')
  /\ UNCHANGED <<thread_vars, locator_vars, importer_vars, sys_modules, stdlib_names>>

\* resolve_symbol(symbol_name) up to the call of _resolve_dotted_path: the
\* keyword check and the prefix strip.
Enter(symbol_name, before) ==
  /\ request' = symbol_name
  /\ prev' = before
  /\ result' = Pending
  /\ obj' = NoObject
  /\ trace' = <<>>
  /\ IF iskeyword(symbol_name)
     THEN /\ pc' = "keyword"
          /\ path' = symbol_name
          /\ i' = 0
     ELSE /\ pc' = "descent"
          /\ path' = normalize_symbol(symbol_name)
          /\ i' = Len(path')
  /\ UNCHANGED <<thread_vars, locator_vars, importer_vars, sys_modules, stdlib_names>>

\* A call with this argument.
resolve_symbol(symbol_name) == Enter(symbol_name, Pending)

\* The idle process is asked to resolve some name.
call ==
  /\ pc = "idle"
  /\ \E symbol_name \in Paths : resolve_symbol(symbol_name)

\* The same argument again, right after the call returned.
resolve_again ==
  /\ pc = "done"
  /\ "raised" \notin DOMAIN result
  /\ Enter(request, result)

\* The call returned and the process waits for the next request.  (A call
\* that an exception left ends the process.)
finish ==
  /\ pc = "done"
  /\ "raised" \notin DOMAIN result
  /\ pc' = "idle"
  /\ request' = <<>>
  /\ path' = <<>>
  /\ i' = 0
  /\ obj' = NoObject
  /\ result' = Pending
  /\ prev' = Pending
  /\ trace' = <<>>
  /\ UNCHANGED <<thread_vars, locator_vars, importer_vars, sys_modules, stdlib_names>>

\* Strategy 1: the keyword record.
describe_keyword ==
  /\ pc = "keyword"
  /\ result' = _describe_keyword(request)
  /\ pc' = "done"
  /\ UNCHANGED <<thread_vars, locator_vars, importer_vars, sys_modules, stdlib_names, request, path, i, obj, prev, trace>>

\* A loop that tries the abandoned prefix again.
Shrink_same_prefix ==
  /\ i' = i
  /\ pc' = "descent"

\* After an abandoned prefix: the next shorter one, or Strategy B.
Shrink ==
  /\ i' = i - 1
  /\ pc' = IF i = 1 THEN "builtin_root" ELSE "descent"

\* The load raised an exception `except Exception` catches: continue.
import_fails ==
  /\ pc = "descent"
  /\ \E s \in {import_descent(path, i, sys_modules, stdlib_names)} :
       /\ s.kind = "failed"
       /\ sys_modules' = s.mods
       /\ obj' = s.obj
  /\ trace' = Append(trace, <<"load", i, "failed">>)
  /\ Shrink
  /\ UNCHANGED <<thread_vars, locator_vars, importer_vars, stdlib_names, request, path, result, prev>>

\* The load raised an exception that is no Exception: nothing catches it.
import_escapes ==
  /\ pc = "descent"
  /\ \E s \in {import_descent(path, i, sys_modules, stdlib_names)} :
       /\ s.kind = "escaped"
       /\ sys_modules' = s.mods
       /\ obj' = s.obj
       /\ result' = s.result
  /\ trace' = Append(trace, <<"load", i, "escaped">>)
  /\ pc' = "done"
  /\ UNCHANGED <<thread_vars, locator_vars, importer_vars, stdlib_names, request, path, i, prev>>

\* The load never returns: the call stays inside importlib.import_module.
import_hangs ==
  /\ pc = "descent"
  /\ \E s \in {import_descent(path, i, sys_modules, stdlib_names)} :
       /\ s.kind = "hung"
       /\ sys_modules' = s.mods
       /\ obj' = s.obj
  /\ trace' = Append(trace, <<"load", i, "hung">>)
  /\ pc' = "hung"
  /\ UNCHANGED <<thread_vars, locator_vars, importer_vars, stdlib_names, request, path, i, result, prev>>

\* The prefix loaded, the remainder traversed, _describe returned.
import_describes ==
  /\ pc = "descent"
  /\ \E s \in {import_descent(path, i, sys_modules, stdlib_names)} :
       /\ s.kind = "described"
       /\ sys_modules' = s.mods
       /\ obj' = s.obj
       /\ result' = s.result
  /\ trace' = Append(trace, <<"load", i, "described">>)
  /\ pc' = "done"
  /\ UNCHANGED <<thread_vars, locator_vars, importer_vars, stdlib_names, request, path, i, prev>>

\* The prefix loaded but a remaining segment is missing (AttributeError):
\* pass, and on to the shorter prefix.
import_attribute_missing ==
  /\ pc = "descent"
  /\ \E s \in {import_descent(path, i, sys_modules, stdlib_names)} :
       /\ s.kind = "missing"
       /\ sys_modules' = s.mods
       /\ obj' = s.obj
  /\ trace' = Append(trace, <<"load", i, "missing">>)
  /\ Shrink
  /\ UNCHANGED <<thread_vars, locator_vars, importer_vars, stdlib_names, request, path, result, prev>>

\* The prefix loaded but the traversal or _describe raised something other
\* than AttributeError: it reaches the handler of resolve_symbol.
import_faults ==
  /\ pc = "descent"
  /\ \E s \in {import_descent(path, i, sys_modules, stdlib_names)} :
       /\ s.kind = "faulted"
       /\ sys_modules' = s.mods
       /\ obj' = s.obj
       /\ result' = s.result
  /\ trace' = Append(trace, <<"load", i, "faulted">>)
  /\ pc' = "done"
  /\ UNCHANGED <<thread_vars, locator_vars, importer_vars, stdlib_names, request, path, i, prev>>

\* Strategy B succeeds.
builtin_root_describes ==
  /\ pc = "builtin_root"
  /\ \E s \in {builtin_root(path, sys_modules, stdlib_names)} :
       /\ s.kind = "described"
       /\ obj' = s.obj
       /\ result' = s.result
  /\ trace' = Append(trace, <<"builtin", 0, "described">>)
  /\ pc' = "done"
  /\ UNCHANGED <<thread_vars, locator_vars, importer_vars, sys_modules, stdlib_names, request, path, i, prev>>

\* Strategy B raised something other than AttributeError.
builtin_root_faults ==
  /\ pc = "builtin_root"
  /\ \E s \in {builtin_root(path, sys_modules, stdlib_names)} :
       /\ s.kind = "faulted"
       /\ obj' = s.obj
       /\ result' = s.result
  /\ trace' = Append(trace, <<"builtin", 0, "faulted">>)
  /\ pc' = "done"
  /\ UNCHANGED <<thread_vars, locator_vars, importer_vars, sys_modules, stdlib_names, request, path, i, prev>>

\* Every strategy failed: raise ImportError("Could not resolve ..."), which
\* the handler of resolve_symbol turns into the error record.
unresolved ==
  /\ pc = "builtin_root"
  /\ \E s \in {builtin_root(path, sys_modules, stdlib_names)} :
       /\ s.kind \in {"absent", "missing"}
       /\ obj' = s.obj
       /\ trace' = IF s.kind = "missing"
                   THEN Append(trace, <<"builtin", 0, "missing">>)
                   ELSE trace
  /\ result' = handle("ImportError", could_not_resolve(path))
  /\ pc' = "done"
  /\ UNCHANGED <<thread_vars, locator_vars, importer_vars, sys_modules, stdlib_names, request, path, i, prev>>

Next ==
  \/ call
  \/ resolve_again
  \/ finish
  \/ describe_keyword
  \/ import_fails
  \/ import_escapes
  \/ import_hangs
  \/ import_describes
  \/ import_attribute_missing
  \/ import_faults
  \/ builtin_root_describes
  \/ builtin_root_faults
  \/ unresolved

Spec == Init /\ [][Next]_vars

(***************************************************************************)
(* The properties.                                                         *)
(***************************************************************************)

\* `module_path` of _resolve_dotted_path when the call ended: the prefix that
\* was loaded, or "builtins" in Strategy B.
module_path == IF i = 0 THEN <<"builtins">> ELSE Prefix(path, i)

\* `defined_module` of _describe, None when the object declares none.
defined_module(o) ==
  IF ObjectTable[o].ismodule THEN Some(ObjectTable[o].name) ELSE ObjectTable[o].module

\* The names of the registry bound to the module object that `name` is bound to.
aliases(name) == {alias \in DOMAIN sys_modules : sys_modules[alias] = sys_modules[name]}

\* C1: resolve never raises past its boundary: whatever fails inside it (a
\* module load, the loaded module's own top-level code included, an attribute
\* lookup, introspection), the call returns a success record or an
\* {error: text} record.
C1_NeverRaises ==
  pc = "done" =>
    /\ "raised" \notin DOMAIN result
    /\ "error" \in DOMAIN result \/ "module" \in DOMAIN result

\* C2: a load failure or a missing attribute inside import descent is never
\* surfaced: the call goes on to the next shorter prefix or the next strategy,
\* and an error it finally returns is the unresolved-symbol error for the path
\* (or the text of a later fault of traversal or introspection), never that of
\* the load error or attribute error.
C2_FailuresNotSurfaced ==
  ( /\ pc = "done"
    /\ \E k \in 1..Len(trace) : trace[k][3] \in {"failed", "escaped", "missing"} )
  => /\ "raised" \notin DOMAIN result
     /\ "error" \in DOMAIN result =>
          \/ result.error = could_not_resolve(path)
          \/ trace[Len(trace)][3] = "faulted"

\* C3: when every strategy fails for a path (no keyword, every prefix
\* abandoned because its load failed or a segment is missing, the builtin
\* root absent or a segment missing under it), resolve returns a record whose
\* only field is `error`, with the message that names the unresolved path.
C3_AllStrategiesFail ==
  ( /\ pc = "done"
    /\ request \notin {<<s>> : s \in kwlist}
    /\ \A k \in 1..Len(trace) : trace[k][3] \in {"failed", "escaped", "missing"} )
  => /\ DOMAIN result = {"error"}
     /\ result.error = could_not_resolve(path)

C5_SevenFields ==
  (pc = "done" /\ "module" \in DOMAIN result) =>
    /\ DOMAIN result =
         {"docstring", "signature", "module", "qualname", "is_stdlib", "url", "kind"}
    /\ result.kind \in {"keyword", "builtin", "module", "stdlibMember", "thirdPartyMember"}

C7_AccessPathModule ==
  ( /\ pc = "done"
    /\ "url" \in DOMAIN result
    /\ _is_stdlib(module_path, stdlib_names) )
  => result.module \in {module_path, better_alias(module_path, sys_modules)}

\* C8: when the declared defining module differs from the module path used to
\* reach the entity and several registry names are bound to the same module
\* object, the module field is "os.path" if that alias is among those names,
\* and the resolution-path module name otherwise (stated here for the
\* standard-library resolution paths only).
C8_CanonicalAlias ==
  ( /\ pc = "done"
    /\ "url" \in DOMAIN result
    /\ _is_stdlib(module_path, stdlib_names)
    /\ defined_module(obj) # None )
  => \A d \in defined_module(obj) :
       ( /\ d # module_path
         /\ d \in DOMAIN sys_modules
         /\ Cardinality(aliases(d)) >= 2 )
       => result.module = IF <<"os", "path">> \in aliases(d)
                          THEN <<"os", "path">>
                          ELSE module_path

\* C9: in a record built by _describe the URL is present only when is_stdlib
\* is true, and is_stdlib is the classification of the module name the module
\* field reports.
C9_UrlOnlyStdlib ==
  (pc = "done" /\ "url" \in DOMAIN result) =>
    /\ result.url # None => result.is_stdlib
    /\ result.is_stdlib = _is_stdlib(result.module, stdlib_names)

C9_Witness ==
  /\ pc = "done"
  /\ "url" \in DOMAIN result
  /\ result.module = <<"pkg">>
  /\ ~result.is_stdlib
  /\ result.url = None

\* C10, as stated: in a record whose module is "builtins", an exception type
\* routes to the exceptions page, any other class or callable whose
\* qualified name has no separator to the functions page, every remaining
\* class or callable to the stdtypes page, each anchored by the qualified name.
C10_Routing_AsStated ==
  ( /\ pc = "done"
    /\ "url" \in DOMAIN result
    /\ result.module = <<"builtins">>
    /\ ObjectTable[obj].isclass \/ ObjectTable[obj].callable )
  => result.url =
       Some([page   |-> IF ObjectTable[obj].isexc THEN <<"exceptions">>
                        ELSE IF Len(result.qualname) = 1 THEN <<"functions">>
                        ELSE <<"stdtypes">>,
             anchor |-> result.qualname])

\* C10, amended: in a record whose module is "builtins", an exception class
\* routes to the exceptions page and every other class to the stdtypes page,
\* whatever its qualified name; a callable that is no class routes to the
\* functions page when its qualified name has no separator and to the
\* stdtypes page otherwise; each anchored by the qualified name.
C10_Routing ==
  ( /\ pc = "done"
    /\ "url" \in DOMAIN result
    /\ result.module = <<"builtins">>
    /\ ObjectTable[obj].isclass \/ ObjectTable[obj].callable )
  => result.url =
       Some([page   |-> IF ObjectTable[obj].isclass
                        THEN IF ObjectTable[obj].isexc THEN <<"exceptions">>
                             ELSE <<"stdtypes">>
                        ELSE IF Len(result.qualname) = 1 THEN <<"functions">>
                        ELSE <<"stdtypes">>,
             anchor |-> result.qualname])

C10_Witness ==
  /\ pc = "done"
  /\ "url" \in DOMAIN result
  /\ obj = "cls_str"
  /\ result.module = <<"builtins">>
  /\ result.url = Some([page |-> <<"stdtypes">>, anchor |-> <<"str">>])

\* C11: a failure of introspection degrades only its field: when extracting
\* the signature or the docstring of the entity the traversal came to fails,
\* for whatever reason, resolve still returns a success record, with that
\* field absent; it returns no error record and raises nothing.
C11_IntrospectionDegrades ==
  ( /\ pc = "done"
    /\ obj \in Objects
    /\ \/ ObjectTable[obj].callable /\ ObjectTable[obj].sig \notin {"text", "none"}
       \/ ObjectTable[obj].doc \notin {"text", "none"} )
  => /\ "module" \in DOMAIN result
     /\ (ObjectTable[obj].callable /\ ObjectTable[obj].sig # "text")
          => result.signature = None
     /\ ObjectTable[obj].doc # "text" => result.docstring = None

(***************************************************************************)
(* The classifier on its own: _is_stdlib applied to one module name.       *)
(***************************************************************************)

\* The root segments the classifier is tried on, and the module names built
\* on them.
ClassifierRoots ==
  {"builtins", "posix", "os", "posixpath", "io", "zipimport", "tkinter",
   "sitecustomize", "pkg", "dist", "local", "namespace", "broken", "zzz"}

ClassifierNames ==
  {<<>>} \cup
  {[k \in 1..n |-> IF k = 1 THEN root ELSE "path"] : root \in ClassifierRoots, n \in 1..MaxSegs}

InitClassifier ==
  /\ InitImporter
  /\ InitLocator
  /\ InitThreads
  /\ sys_modules = InitialModules
  /\ stdlib_names \in BOOLEAN
  /\ pc = "classify"
  /\ request \in ClassifierNames
  /\ path = <<>>
  /\ i = 0
  /\ obj = NoObject
  /\ result = Pending
  /\ prev = Pending
  /\ trace = <<>>

\* _is_stdlib(request) is called and returns.
classify ==
  /\ pc = "classify"
  /\ result' = [is_stdlib |-> _is_stdlib(request, stdlib_names)]
  /\ pc' = "classified"
  /\ UNCHANGED <<thread_vars, locator_vars, importer_vars, sys_modules, stdlib_names, request, path, i, obj, prev, trace>>

NextClassifier == classify

SpecClassifier == InitClassifier /\ [][NextClassifier]_vars

\* C12: _is_stdlib is false for an empty name; otherwise true when the root
\* segment is in the built-in-module set or in the standard-library name set;
\* and when the name set is unavailable (the root being no built-in module),
\* true exactly when the root's file origin lies under the standard-library
\* root and under no third-party-packages root, any lookup failure giving
\* false.
C12_Classification ==
  pc = "classified" =>
    result.is_stdlib =
      ( /\ request # <<>>
        /\ \/ request[1] \in builtin_module_names
           \/ stdlib_names /\ request[1] \in stdlib_module_names
           \/ /\ ~stdlib_names
              /\ ~find_spec(request[1]).raises
              /\ find_spec(request[1]).found
              /\ \E origin \in find_spec(request[1]).origin :
                   /\ startswith(lower_path(origin), lib_path)
                   /\ ~\E k \in 1..Len(origin) :
                         lower(origin[k]) \in {"site-packages", "dist-packages"} )

\* The fallback has classified a module that lies under both roots.
C12_Witness ==
  /\ pc = "classified"
  /\ ~stdlib_names
  /\ request = <<"pkg", "path">>
  /\ result.is_stdlib = FALSE

(***************************************************************************)
(* safe_import_module: the caller and its worker thread.                   *)
(***************************************************************************)

\* safe_import_module(name) up to t.join: the cell is made, the worker is
\* started.
safe_import_module(name) ==
  /\ si_pc = "idle"
  /\ module_name' = name
  /\ cell' = None
  /\ thread' = "running"
  /\ si_pc' = "joining"
  /\ UNCHANGED <<thread_vars, locator_vars, sys_modules, resolver_vars, timed_out, is_alive, si_return, outcome>>

\* Some module is asked for.
start ==
  /\ si_pc = "idle"
  /\ \E name \in Paths : safe_import_module(name)

\* A worker that keeps what the load raised.
worker_cell_keeps_error(value) == Some(value)

\* result[0] once the worker is through: the module, or still None when the
\* load raised (`except Exception: pass`; any other exception ends the
\* thread, not the process).
worker_cell(value) == IF Raises(value) THEN None ELSE Some(value)

\* _import, the worker: the load returns or raises and the thread ends.  A
\* load that hangs never gets here.
_import ==
  /\ thread = "running"
  /\ \E loaded \in {import_module(module_name, sys_modules)} :
       /\ loaded.value # Hangs
       /\ outcome' = loaded.value
       /\ sys_modules' = loaded.mods
       /\ cell' = worker_cell(loaded.value)
  /\ thread' = "finished"
  /\ UNCHANGED <<thread_vars, locator_vars, resolver_vars, si_pc, module_name, timed_out, is_alive, si_return>>

\* t.join(timeout) returns because the worker has ended.
join_returns ==
  /\ si_pc = "joining"
  /\ thread = "finished"
  /\ si_pc' = "joined"
  /\ UNCHANGED <<thread_vars, locator_vars, sys_modules, resolver_vars, module_name, thread, cell, timed_out,
                 is_alive, si_return, outcome>>

\* t.join(timeout) returns because the timeout is over.
join_times_out ==
  /\ si_pc = "joining"
  /\ thread = "running"
  /\ timed_out' = TRUE
  /\ si_pc' = "joined"
  /\ UNCHANGED <<thread_vars, locator_vars, sys_modules, resolver_vars, module_name, thread, cell, is_alive,
                 si_return, outcome>>

\* A caller that joins the worker again when it finds it alive.
check_alive_waits ==
  /\ si_pc = "joined"
  /\ is_alive' = (thread = "running")
  /\ IF thread = "running"
     THEN si_pc' = "joining" /\ si_return' = si_return
     ELSE si_pc' = "returned" /\ si_return' = cell
  /\ UNCHANGED <<thread_vars, locator_vars, sys_modules, resolver_vars, module_name, thread, cell, timed_out, outcome>>

\* `if t.is_alive(): return None` and `return result[0]`.
check_alive ==
  /\ si_pc = "joined"
  /\ is_alive' = (thread = "running")
  /\ si_return' = IF thread = "running" THEN None ELSE cell
  /\ si_pc' = "returned"
  /\ UNCHANGED <<thread_vars, locator_vars, sys_modules, resolver_vars, module_name, thread, cell, timed_out, outcome>>

NextSafeImport ==
  \/ start
  \/ _import
  \/ join_returns
  \/ join_times_out
  \/ check_alive

SpecSafeImport == Init /\ [][NextSafeImport]_vars

\* C13, as stated: if the worker has not completed when the caller's bounded
\* wait ends, safe_import_module returns unavailable.
C13_Timeout_AsStated ==
  (si_pc = "returned" /\ timed_out) => si_return = None

\* C13, amended: if the worker is still running when the caller tests it
\* after the bounded wait, safe_import_module returns unavailable without
\* waiting further (the step that leaves the test is the return), and the
\* worker is not cancelled: a worker thread ends only by its own load
\* returning or raising, which may happen after the caller has returned,
\* unobserved.  A worker found finished at the test has its result returned.
C13_Timeout ==
  /\ []((si_pc = "returned" /\ is_alive) => (si_return = None /\ timed_out))
  /\ [](thread = "finished" => outcome # "pending")
  /\ [][ (si_pc = "joined" /\ si_pc' # "joined") =>
           /\ si_pc' = "returned"
           /\ thread = "running" =>
                (timed_out /\ si_return' = None /\ thread' = "running")
           /\ thread = "finished" => si_return' = cell ]_vars

\* The abandoned worker has completed its load after the caller returned
\* unavailable.
C13_Witness ==
  /\ si_pc = "returned"
  /\ is_alive
  /\ si_return = None
  /\ thread = "finished"
  /\ cell # None

\* C14: an error raised during the load, the loaded module's own top-level
\* code included, is treated like a timeout: safe_import_module returns
\* unavailable and the error does not reach the caller.
C14_ErrorIsUnavailable ==
  (si_pc = "returned" /\ Raises(outcome) /\ outcome # "pending") =>
    /\ si_return = None
    /\ cell = None

\* The load ended the worker with SystemExit before the wait was over.
C14_Witness ==
  /\ si_pc = "returned"
  /\ ~timed_out
  /\ outcome = "SystemExit"
  /\ si_return = None

\* C15: every load resolve performs is bounded by safe_import_module's
\* timeout, so resolve is never held inside a load that does not return.
C15_LoadsAreBounded ==
  pc # "hung"

(***************************************************************************)
(* identify_at_position: which syntax node the cursor is on, and what kind *)
(* of thing that node is.                                                  *)
(***************************************************************************)

\* ast.iter_fields(node): one (name, value) tuple per field of the node.
iter_fields(node) ==
  [f \in 1..Len(node.fields) |-> [tag |-> "tuple", value |-> node.fields[f]]]

\* The assignments parents[item] = node the loops over ast.walk and
\* ast.iter_fields make: one for each node in a child that is a list, one for
\* a child that is a node.
parent_entries(nodes) ==
  { e \in (1..Len(nodes)) \X (1..Len(nodes)) :
      \E f \in 1..Len(iter_fields(nodes[e[2]])) :
        /\ iter_fields(nodes[e[2]])[f].tag \in {"list", "node"}
        /\ \E j \in 1..Len(iter_fields(nodes[e[2]])[f].items) :
             iter_fields(nodes[e[2]])[f].items[j] = e[1] }

\* The parents map once both loops are over; a later assignment to the same
\* key replaces an earlier one.
build_parents(nodes) ==
  [c \in {e[1] : e \in parent_entries(nodes)} |->
     CHOOSE n \in 1..Len(nodes) :
       /\ <<c, n>> \in parent_entries(nodes)
       /\ \A m \in 1..Len(nodes) : <<c, m>> \in parent_entries(nodes) => m <= n]

\* The three "continue" tests of the scan, negated: the cursor is not before
\* the node's first line or after its last, not left of its start on the first
\* line, and not right of its end on the last.
contains_cursor_exclusive_end(node, l, c) ==
  /\ ~(l < node.lineno \/ l > node.end_lineno)
  /\ ~(l = node.lineno /\ c < node.col_offset)
  /\ ~(l = node.end_lineno /\ c >= node.end_col_offset)

contains_cursor(node, l, c) ==
  /\ ~(l < node.lineno \/ l > node.end_lineno)
  /\ ~(l = node.lineno /\ c < node.col_offset)
  /\ ~(l = node.end_lineno /\ c > node.end_col_offset)

\* The weight of one line in the size of a node.
LineWeight == 10000

size(node) ==
  (node.end_lineno - node.lineno) * LineWeight
    + (node.end_col_offset - node.col_offset)

\* A comparison that lets a node of equal size replace the winner.
smaller_or_equal(s, range) == range = None \/ \E r \in range : s <= r

\* size < min_range, with min_range starting at float("inf").
smaller(s, range) == range = None \/ \E r \in range : s < r

DefinitionKinds == {"ClassDef", "FunctionDef", "AsyncFunctionDef"}

\* The loop "while curr in parents" of _map_node_to_type: the names of the
\* definitions found on the way up are put in front of the name.
RECURSIVE qualified(_, _, _, _)
qualified(curr, name, pmap, nodes) ==
  IF curr \notin DOMAIN pmap THEN name
  ELSE qualified(pmap[curr],
                 IF nodes[pmap[curr]].kind \in DefinitionKinds
                   THEN <<nodes[pmap[curr]].name>> \o name ELSE name,
                 pmap, nodes)

\* _map_node_to_type(node, parents): the label of node n, or None.
_map_node_to_type(n, pmap, nodes) ==
  CASE nodes[n].kind \in {"List", "ListComp"} -> Some(<<"list">>)
    [] nodes[n].kind \in {"Dict", "DictComp"} -> Some(<<"dict">>)
    [] nodes[n].kind \in {"Set", "SetComp"} -> Some(<<"set">>)
    [] nodes[n].kind = "Tuple" -> Some(<<"tuple">>)
    [] nodes[n].kind = "JoinedStr" -> Some(<<"f-string">>)
    [] nodes[n].kind = "Constant" /\ nodes[n].value = "str" -> Some(<<"str">>)
    [] nodes[n].kind = "Constant" /\ nodes[n].value = "bool" -> Some(<<"bool">>)
    [] nodes[n].kind = "Constant" /\ nodes[n].value \in {"int", "float"} ->
         Some(<<nodes[n].value>>)
    [] nodes[n].kind = "Constant" /\ nodes[n].value = "None" -> Some(<<"None">>)
    [] nodes[n].kind \in {"FunctionDef", "AsyncFunctionDef"} ->
         Some(qualified(n, <<nodes[n].name>>, pmap, nodes))
    [] OTHER -> None

Returned(value) == [value |-> value]
Raised(class) == [raised |-> class]

\* identify_at_position(source, line, col) up to the scan: ast.parse, and
\* the parents map.
identify_at_position(src, l, c) ==
  /\ source' = src
  /\ line' = l
  /\ col' = c
  /\ visit' = 1
  /\ target_node' = 0
  /\ min_range' = None
  /\ considered' = {}
  /\ IF src \in DOMAIN ParseErrors
       THEN /\ loc_pc' = "returned"
            /\ loc_result' = IF ParseErrors[src] = "SyntaxError"
                               THEN Returned(None)
                               ELSE Raised(ParseErrors[src])
            /\ UNCHANGED <<tree, parents>>
       ELSE /\ loc_pc' = "scan"
            /\ tree' = Trees[src]
            /\ parents' = build_parents(Trees[src])
            /\ UNCHANGED loc_result
  /\ UNCHANGED <<sys_modules, resolver_vars, importer_vars, thread_vars>>

locate ==
  /\ loc_pc = "idle"
  /\ \E src \in Sources, l \in 1..MaxLine, c \in 0..MaxCol :
       identify_at_position(src, l, c)

\* One round of the scan loop that ends in a "continue".
visit_skips ==
  /\ loc_pc = "scan"
  /\ visit <= Len(tree)
  /\ ~tree[visit].pos \/ ~contains_cursor(tree[visit], line, col)
  /\ visit' = visit + 1
  /\ UNCHANGED <<loc_pc, source, line, col, tree, parents, target_node,
                 min_range, considered, loc_result>>
  /\ UNCHANGED <<sys_modules, resolver_vars, importer_vars, thread_vars>>

\* One round of the scan loop that reaches the size comparison.
visit_candidate ==
  /\ loc_pc = "scan"
  /\ visit <= Len(tree)
  /\ tree[visit].pos
  /\ contains_cursor(tree[visit], line, col)
  /\ considered' = considered \cup {visit}
  /\ IF smaller(size(tree[visit]), min_range)
       THEN /\ min_range' = Some(size(tree[visit]))
            /\ target_node' = visit
       ELSE UNCHANGED <<min_range, target_node>>
  /\ visit' = visit + 1
  /\ UNCHANGED <<loc_pc, source, line, col, tree, parents, loc_result>>
  /\ UNCHANGED <<sys_modules, resolver_vars, importer_vars, thread_vars>>

\* After the scan: None without a target, else the label of the target.
scan_ends ==
  /\ loc_pc = "scan"
  /\ visit > Len(tree)
  /\ loc_pc' = "returned"
  /\ loc_result' = IF target_node = 0 THEN Returned(None)
                   ELSE Returned(_map_node_to_type(target_node, parents, tree))
  /\ UNCHANGED <<source, line, col, tree, parents, visit, target_node,
                 min_range, considered>>
  /\ UNCHANGED <<sys_modules, resolver_vars, importer_vars, thread_vars>>

NextLocate ==
  \/ locate
  \/ visit_skips
  \/ visit_candidate
  \/ scan_ends

SpecLocate == Init /\ [][NextLocate]_vars

(***************************************************************************)
(* Properties of identify_at_position (under SpecLocate).                  *)
(***************************************************************************)

\* The span predicate: the node's lines include the cursor's line, on the
\* node's first line the cursor is at or right of its start column, and on its
\* last line at or left of its end column.
in_span(node, l, c) ==
  /\ node.lineno <= l
  /\ l <= node.end_lineno
  /\ (l = node.lineno => c >= node.col_offset)
  /\ (l = node.end_lineno => c <= node.end_col_offset)

\* C16: a source that cannot be parsed makes identify_at_position return no
\* category; no exception comes out of it.
C16_UnparsableIsNone ==
  (loc_pc = "returned" /\ source \in DOMAIN ParseErrors)
    => loc_result = Returned(None)

\* C17: the nodes the scan considers are exactly the positioned nodes whose
\* span contains the cursor, both ends inclusive, and the node classified is
\* one of them.
C17_InclusiveSpan ==
  (loc_pc \in {"scan", "returned"} /\ tree # <<>>)
    => /\ considered =
            { n \in 1..(visit - 1) : tree[n].pos /\ in_span(tree[n], line, col) }
       /\ (target_node # 0 => /\ target_node \in considered
                              /\ in_span(tree[target_node], line, col))

\* The cursor on the last column of the literal 1 in "v = [1, 2.5]": the
\* literal is the target and is labelled int.
C17_Witness ==
  /\ loc_pc = "returned"
  /\ source = "lit"
  /\ line = 3
  /\ col = 6
  /\ target_node # 0
  /\ tree[target_node].kind = "Constant"
  /\ tree[target_node].end_col_offset = col
  /\ loc_result = Returned(Some(<<"int">>))

\* A leaf-level node: a positioned node none of whose children is positioned.
is_leaf(n, nodes) ==
  /\ nodes[n].pos
  /\ \A m \in 1..Len(nodes) : nodes[m].parent = n => ~nodes[m].pos

\* The cursor is in the span and on neither of its two ends.
strictly_inside(node, l, c) ==
  /\ in_span(node, l, c)
  /\ ~(l = node.lineno /\ c = node.col_offset)
  /\ ~(l = node.end_lineno /\ c = node.end_col_offset)

\* C18: with the cursor strictly inside the span of exactly one leaf-level
\* node, the result is that leaf's category, whatever ancestors contain the
\* cursor too, an ancestor of the same span included.
C18_LeafWins ==
  (loc_pc = "returned" /\ tree # <<>>)
    => \A n \in 1..Len(tree) :
         ( /\ is_leaf(n, tree)
           /\ strictly_inside(tree[n], line, col)
           /\ \A m \in 1..Len(tree) :
                (is_leaf(m, tree) /\ strictly_inside(tree[m], line, col)) => m = n )
           => loc_result = Returned(_map_node_to_type(n, parents, tree))

\* The names of the definitions node n is nested in, outermost first.
RECURSIVE enclosing(_, _)
enclosing(n, nodes) ==
  IF nodes[n].parent = 0 THEN <<>>
  ELSE enclosing(nodes[n].parent, nodes)
         \o (IF nodes[nodes[n].parent].kind \in DefinitionKinds
               THEN <<nodes[nodes[n].parent].name>> ELSE <<>>)

\* C19: when the selected node is a function or async function definition,
\* the result is its name behind the names of all the class and function
\* definitions enclosing it, outermost first: Outer.Inner.method.
C19_QualifiedName ==
  ( /\ loc_pc = "returned"
    /\ target_node # 0
    /\ tree[target_node].kind \in {"FunctionDef", "AsyncFunctionDef"} )
    => loc_result =
         Returned(Some(enclosing(target_node, tree) \o <<tree[target_node].name>>))

\* The node classes the taxonomy lists.
Taxonomy ==
  {"List", "ListComp", "Dict", "DictComp", "Set", "SetComp", "Tuple",
   "JoinedStr", "Constant", "Str", "FunctionDef", "AsyncFunctionDef"}

\* C20: a numeric, boolean, nil or plain string literal is labelled with the
\* name of its type (int, float, complex, bool, None, str), a formatted
\* string with f-string, and a node outside the taxonomy yields none.
C20_Literals ==
  (loc_pc = "returned" /\ target_node # 0)
    => /\ ( /\ tree[target_node].kind = "Constant"
            /\ tree[target_node].value
                 \in {"int", "float", "complex", "bool", "None", "str"} )
            => loc_result = Returned(Some(<<tree[target_node].value>>))
       /\ tree[target_node].kind = "JoinedStr"
            => loc_result = Returned(Some(<<"f-string">>))
       /\ tree[target_node].kind \notin Taxonomy
            => loc_result = Returned(None)

(***************************************************************************)
(* Properties of the strategies of resolve_symbol (under Spec).            *)
(***************************************************************************)

\* C22: import descent tries the prefixes of the path from all segments down
\* to one, each one segment shorter than the one before; a shorter prefix is
\* tried only after every longer one failed to load or to traverse; and the
\* first prefix that loads and traverses ends the descent, the call returning
\* the description made from that prefix.
C22_DescentOrder ==
  pc = "done" =>
    /\ \A n \in 1..Len(trace) :
         trace[n][1] = "load" => trace[n][2] = Len(path) + 1 - n
    /\ \A n \in 1..(Len(trace) - 1) : trace[n][3] \in {"failed", "missing"}
    /\ ( /\ trace # <<>>
         /\ trace[Len(trace)][1] = "load"
         /\ obj # NoObject )
         => /\ "module" \in DOMAIN result
            /\ result = _describe(obj, Prefix(path, trace[Len(trace)][2]), path,
                                  sys_modules, stdlib_names)

\* C23: the call comes to the builtin-root fallback only when no prefix of the
\* path loaded: after a prefix that loaded and whose remainder failed
\* traversal, the lookup in the builtins namespace is not made.
C23_FallbackOnlyIfNoneLoaded ==
  pc = "builtin_root" => \A n \in 1..Len(trace) : trace[n][3] = "failed"

\* C24: a path that begins with "builtins." goes into import descent as its
\* remainder exactly when the first segment of the remainder is a name of the
\* builtins namespace; every other path goes in unchanged.
C24_PrefixStrip ==
  (pc \in {"descent", "builtin_root", "hung", "done"} /\ request \notin {<<s>> : s \in kwlist})
    => path = IF /\ Len(request) >= 2
                 /\ request[1] = "builtins"
                 /\ \E t \in Attrs :
                      t[1] = "mod_builtins" /\ t[2] = request[2] /\ t[3] \in Objects
              THEN SubSeq(request, 2, Len(request))
              ELSE request

\* builtins.str.join went in as str.join and was described from the builtin
\* root.
C24_Witness ==
  /\ pc = "done"
  /\ request = <<"builtins", "str", "join">>
  /\ path = <<"str", "join">>
  /\ "module" \in DOMAIN result
  /\ trace[Len(trace)] = <<"builtin", 0, "described">>

\* C28: a call whose loads all return makes at most one load attempt per
\* prefix of the path, hence at most n for n segments, and after them at most
\* one traversal from the builtin root; nothing is tried twice, and every
\* step of the call ends it or moves on to a shorter prefix, so it terminates.
C28_BoundedAttempts ==
  /\ [](/\ Len(trace) <= Len(path) + 1
        /\ \A n \in 1..Len(trace) :
             /\ trace[n][1] = "load" => (n <= Len(path) /\ trace[n][2] \in 1..Len(path))
             /\ trace[n][1] = "builtin" => n = Len(trace)
             /\ \A m \in 1..Len(trace) :
                  (trace[m][1] = trace[n][1] /\ trace[m][2] = trace[n][2]) => m = n)
  /\ [][ (pc \in {"descent", "builtin_root"}) =>
           (pc' \in {"done", "hung"} \/ (i' < i /\ Len(trace') = Len(trace) + 1)) ]_vars

\* str.join: two loads that failed, then the traversal from the builtin root.
C28_Witness ==
  /\ pc = "done"
  /\ Len(path) = 2
  /\ Len(trace) = 3
  /\ trace[1] = <<"load", 2, "failed">>
  /\ trace[2] = <<"load", 1, "failed">>
  /\ trace[3][1] = "builtin"

(***************************************************************************)
(* Properties of the size comparison (under SpecLocate).                   *)
(***************************************************************************)

\* The nodes of the tree the cursor is in.
containing(nodes, l, c) ==
  { n \in 1..Len(nodes) : nodes[n].pos /\ in_span(nodes[n], l, c) }

\* C25: the node classified is a node of minimum size among the nodes that
\* contain the cursor, and among several of minimum size the one the walk
\* comes to first.
C25_SmallestFirstWins ==
  (loc_pc = "returned" /\ tree # <<>>)
    => IF containing(tree, line, col) = {}
       THEN target_node = 0 /\ loc_result = Returned(None)
       ELSE /\ target_node \in containing(tree, line, col)
            /\ \A n \in containing(tree, line, col) :
                 /\ size(tree[target_node]) <= size(tree[n])
                 /\ size(tree[n]) = size(tree[target_node]) => target_node <= n
            /\ loc_result = Returned(_map_node_to_type(target_node, parents, tree))

\* The statement 42 and its literal have the same size: the statement, which
\* the walk yields first, stays the winner.
C25_Witness ==
  /\ loc_pc = "returned"
  /\ source = "bare"
  /\ considered = {2, 3}
  /\ size(tree[2]) = size(tree[3])
  /\ target_node = 2

\* The nodes node n is nested in.
RECURSIVE ancestors(_, _)
ancestors(n, nodes) ==
  IF nodes[n].parent = 0 THEN {}
  ELSE {nodes[n].parent} \cup ancestors(nodes[n].parent, nodes)

\* C26: of two nodes the scan computes the size of, the one that spans fewer
\* lines has the strictly smaller size whatever the columns are, and a node
\* nested in another never has a larger size than the node it is nested in.
C26_LinesDominate ==
  (loc_pc \in {"scan", "returned"} /\ tree # <<>>)
    => \A a \in considered : \A b \in considered :
         /\ (tree[a].end_lineno - tree[a].lineno < tree[b].end_lineno - tree[b].lineno)
              => size(tree[a]) < size(tree[b])
         /\ b \in ancestors(a, tree) => size(tree[a]) <= size(tree[b])

(***************************************************************************)
(* What safe_import_module can return (under SpecSafeImport).              *)
(***************************************************************************)

\* C29: safe_import_module returns a module only if its own worker had
\* finished the load of the requested name successfully when the caller
\* tested it; in every interleaving the value returned is that module or
\* unavailable; and whatever the worker does after the caller has returned
\* leaves the value returned as it is.
C29_OwnWorkersModule ==
  /\ [](si_pc = "returned" =>
          /\ si_return \in {None, Some(outcome)}
          /\ si_return # None =>
               /\ ~is_alive
               /\ thread = "finished"
               /\ outcome \in Objects
               /\ \E mods \in {sys_modules} :
                    /\ module_name \in DOMAIN mods
                    /\ mods[module_name] = outcome)
  /\ [][ (si_pc = "returned") => (si_pc' = "returned" /\ si_return' = si_return) ]_vars

\* The wait ended with the worker unfinished, the worker finished before the
\* caller tested it, and its module was returned.
C29_Witness ==
  /\ si_pc = "returned"
  /\ timed_out
  /\ ~is_alive
  /\ module_name = <<"pkg">>
  /\ si_return = Some("mod_pkg")

(***************************************************************************)
(* A path and the same path behind "builtins.": a process that resolves    *)
(* p and then "builtins." + p.                                             *)
(***************************************************************************)

\* After resolve_symbol(p) returned, p beginning with a name of the builtins
\* namespace: resolve_symbol("builtins." + p).
resolve_prefixed ==
  /\ pc = "done"
  /\ "raised" \notin DOMAIN result
  /\ prev = Pending
  /\ Len(request) < MaxSegs
  /\ hasattr_builtins(request[1])
  /\ Enter(<<"builtins">> \o request, result)

NextStrip ==
  \/ call
  \/ resolve_prefixed
  \/ finish
  \/ describe_keyword
  \/ import_fails
  \/ import_escapes
  \/ import_hangs
  \/ import_describes
  \/ import_attribute_missing
  \/ import_faults
  \/ builtin_root_describes
  \/ builtin_root_faults
  \/ unresolved

SpecStrip == Init /\ [][NextStrip]_vars

ThreadRequests ==
  { <<"True">>, <<"os", "path", "join">>, <<"str", "join">>,
    <<"pkg", "builtins", "len">>, <<"pkg", "len">>, <<"pkg", "os">>,
    <<"pkg", "OSError">> }

\* What pydoc.help does for a keyword: it prints the text, or raises.
HelpOutcomes == {"text", "RuntimeError", "SystemExit"}

\* The record of _describe_keyword, its docstring being capture.getvalue():
\* the texts written to the capture.
keyword_record(name, texts) ==
  [_describe_keyword(name) EXCEPT !.docstring = Some(texts)]

\* The call has ended: resolve_symbol returned the record, or the exception
\* left it.
ended(c, res) ==
  [c EXCEPT !.pc = IF "raised" \in DOMAIN res THEN "raised" ELSE "returned",
            !.result = res]

\* `continue` and `pass` in the loop of import descent.
shrunk(c) ==
  [c EXCEPT !.i = c.i - 1,
            !.pc = IF c.i = 1 THEN "builtin_root" ELSE "descent"]

\* raise ImportError("Could not resolve ...") and the handler.
not_resolved(c) == ended(c, handle("ImportError", could_not_resolve(c.path)))

\* resolve_symbol(symbol_name) in thread t up to _describe_keyword or
\* _resolve_dotted_path.
Begin(t, symbol_name) ==
  /\ calls[t].pc = "idle"
  /\ calls' = [calls EXCEPT ![t] =
       [NoCall EXCEPT
          !.request = symbol_name,
          !.before = sys_stdout,
          !.pc = IF iskeyword(symbol_name) THEN "save" ELSE "descent",
          !.path = IF iskeyword(symbol_name) THEN symbol_name
                   ELSE normalize_symbol(symbol_name),
          !.i = IF iskeyword(symbol_name) THEN 0
                ELSE Len(normalize_symbol(symbol_name))]]
  /\ UNCHANGED <<sys_modules, resolver_vars, importer_vars, locator_vars,
                 sys_stdout, streams>>

\* A thread calls resolve_symbol while no other thread is inside it.
call_alone(t) ==
  /\ \A u \in Threads : calls[u].pc \in {"idle", "returned", "raised"}
  /\ \A u \in Threads : u < t => calls[u].pc # "idle"
  /\ \E symbol_name \in ThreadRequests : Begin(t, symbol_name)

\* A thread calls resolve_symbol, whatever the other threads are doing.
call_any(t) ==
  \E symbol_name \in ThreadRequests : Begin(t, symbol_name)

\* _describe_keyword: capture = io.StringIO(); original_stdout = sys.stdout
save_stdout(t) ==
  /\ calls[t].pc = "save"
  /\ calls' = [calls EXCEPT ![t].original = sys_stdout, ![t].pc = "swap"]
  /\ streams' = [streams EXCEPT ![Capture(t)] = <<>>]
  /\ UNCHANGED <<sys_modules, resolver_vars, importer_vars, locator_vars, sys_stdout>>

\* sys.stdout = capture
swap_stdout(t) ==
  /\ calls[t].pc = "swap"
  /\ sys_stdout' = Capture(t)
  /\ calls' = [calls EXCEPT ![t].pc = "help"]
  /\ UNCHANGED <<sys_modules, resolver_vars, importer_vars, locator_vars, streams>>

\* pydoc.help(name): the text goes to the stream sys.stdout is bound to when
\* help writes it; or help raises.
help(t) ==
  /\ calls[t].pc = "help"
  /\ \E printed \in HelpOutcomes :
       /\ calls' = [calls EXCEPT ![t].help = printed, ![t].pc = "restore"]
       /\ streams' = IF printed = "text"
                     THEN [streams EXCEPT ![sys_stdout] =
                             Append(@, HelpText(calls[t].request))]
                     ELSE streams
  /\ UNCHANGED <<sys_modules, resolver_vars, importer_vars, locator_vars, sys_stdout>>

\* A _describe_keyword without `finally`: the binding is put back only when
\* help returned.
restore_stdout_unless_raised(t) ==
  /\ calls[t].pc = "restore"
  /\ sys_stdout' = IF calls[t].help = "text" THEN calls[t].original ELSE sys_stdout
  /\ calls' = [calls EXCEPT ![t].pc = "leave"]
  /\ UNCHANGED <<sys_modules, resolver_vars, importer_vars, locator_vars, streams>>

\* finally: sys.stdout = original_stdout
restore_stdout(t) ==
  /\ calls[t].pc = "restore"
  /\ sys_stdout' = calls[t].original
  /\ calls' = [calls EXCEPT ![t].pc = "leave"]
  /\ UNCHANGED <<sys_modules, resolver_vars, importer_vars, locator_vars, streams>>

\* The return of _describe_keyword with capture.getvalue(), or what help
\* raised on its way through the handler of resolve_symbol.
keyword_returns(t) ==
  /\ calls[t].pc = "leave"
  /\ calls' = [calls EXCEPT ![t] =
       IF calls[t].help = "text"
       THEN ended(@, keyword_record(calls[t].request, streams[Capture(t)]))
       ELSE ended(@, handle(calls[t].help, fault_text(calls[t].help)))]
  /\ UNCHANGED <<sys_modules, resolver_vars, importer_vars, locator_vars,
                 sys_stdout, streams>>

\* What the call goes on with after import_module and the traversal of the
\* remainder: `value` is what the load gave, `reached` what the traversal
\* came to, `names` the names registered then.
after_load(c, value, reached, names) ==
  IF value = Hangs THEN [c EXCEPT !.pc = "hung"]
  ELSE IF Raises(value)
       THEN IF IsException(value) THEN shrunk(c)
            ELSE ended(c, [raised |-> value])
  ELSE IF reached = "AttributeError" THEN shrunk(c)
  ELSE IF Raises(reached) THEN ended(c, handle(reached, fault_text(reached)))
  ELSE [c EXCEPT !.pc = "describe", !.obj = reached, !.seen = names]

\* One iteration of import descent up to the call of _describe.
load_prefix(t) ==
  /\ calls[t].pc = "descent"
  /\ \E loaded \in {import_module(Prefix(calls[t].path, calls[t].i), sys_modules)} :
       /\ sys_modules' = loaded.mods
       /\ \E reached \in
            {IF Raises(loaded.value) THEN loaded.value
             ELSE _traverse_attributes(loaded.value,
                                       Remainder(calls[t].path, calls[t].i))} :
            calls' = [calls EXCEPT ![t] =
                        after_load(@, loaded.value, reached, DOMAIN loaded.mods)]
  /\ UNCHANGED <<resolver_vars, importer_vars, locator_vars, sys_stdout, streams>>

\* Strategy B up to the call of _describe.
builtin_root_lookup(t) ==
  /\ calls[t].pc = "builtin_root"
  /\ calls' = [calls EXCEPT ![t] =
       IF ~hasattr_builtins(calls[t].path[1]) THEN not_resolved(@)
       ELSE after_load(@, "mod_builtins",
                       _traverse_attributes("mod_builtins", calls[t].path),
                       DOMAIN sys_modules)]
  /\ UNCHANGED <<sys_modules, resolver_vars, importer_vars, locator_vars,
                 sys_stdout, streams>>

\* The registry with no name in it.
NoModules == [name \in {} |-> "none"]

\* What the alias scan of _describe sees of the registry: all of it, or,
\* when names were registered by another thread since the object was
\* reached, possibly nothing of use (`for alias, mod in sys.modules.items()`
\* raises RuntimeError when the dictionary changes size, and the scan is
\* inside `except Exception: pass`).
scanned(c, mods) ==
  IF DOMAIN mods = c.seen THEN {mods} ELSE {mods, NoModules}

\* What the call goes on with after _describe: d is the record or the
\* exception raised.
after_describe(c, d) ==
  IF "raised" \notin DOMAIN d THEN ended(c, d)
  ELSE IF d.raised = "AttributeError"
       THEN IF c.i = 0 THEN not_resolved(c) ELSE shrunk(c)
  ELSE ended(c, handle(d.raised, fault_text(d.raised)))

\* return _describe(obj, module_path, path)
describe_object(t) ==
  /\ calls[t].pc = "describe"
  /\ \E mods \in scanned(calls[t], sys_modules) :
       \E d \in {_describe(calls[t].obj,
                           IF calls[t].i = 0 THEN <<"builtins">>
                           ELSE Prefix(calls[t].path, calls[t].i),
                           calls[t].path, mods, stdlib_names)} :
         calls' = [calls EXCEPT ![t] = after_describe(@, d)]
  /\ UNCHANGED <<sys_modules, resolver_vars, importer_vars, locator_vars,
                 sys_stdout, streams>>

\* The process before any call: standard output is the console or a file.
InitThreaded ==
  /\ InitImporter
  /\ InitLocator
  /\ sys_modules = InitialModules
  /\ stdlib_names \in BOOLEAN
  /\ pc = "idle"
  /\ request = <<>>
  /\ path = <<>>
  /\ i = 0
  /\ obj = NoObject
  /\ result = Pending
  /\ prev = Pending
  /\ trace = <<>>
  /\ calls = [t \in Threads |-> NoCall]
  /\ sys_stdout \in {Console, Redirected}
  /\ streams = [s \in Streams |-> <<>>]

\* The calls made one after the other.
NextSequential ==
  \/ \E t \in Threads : call_alone(t)
  \/ \E t \in Threads : save_stdout(t)
  \/ \E t \in Threads : swap_stdout(t)
  \/ \E t \in Threads : help(t)
  \/ \E t \in Threads : restore_stdout(t)
  \/ \E t \in Threads : keyword_returns(t)
  \/ \E t \in Threads : load_prefix(t)
  \/ \E t \in Threads : builtin_root_lookup(t)
  \/ \E t \in Threads : describe_object(t)

SpecSequential == InitThreaded /\ [][NextSequential]_vars

\* The calls made by threads that run at the same time.
NextConcurrent ==
  \/ \E t \in Threads : call_any(t)
  \/ \E t \in Threads : save_stdout(t)
  \/ \E t \in Threads : swap_stdout(t)
  \/ \E t \in Threads : help(t)
  \/ \E t \in Threads : restore_stdout(t)
  \/ \E t \in Threads : keyword_returns(t)
  \/ \E t \in Threads : load_prefix(t)
  \/ \E t \in Threads : builtin_root_lookup(t)
  \/ \E t \in Threads : describe_object(t)

SpecConcurrent == InitThreaded /\ [][NextConcurrent]_vars

(***************************************************************************)
(* Properties of the calls made by threads.                                *)
(***************************************************************************)

\* C30 (under SpecSequential): when a call of resolve_symbol on a reserved
\* word has returned, or has been left by what help raised, standard output
\* is bound to the stream it was bound to before the call, and the help text
\* is in the docstring of the record and on no other stream.
C30_StdoutRestored ==
  /\ [](/\ streams[Console] = <<>>
        /\ streams[Redirected] = <<>>
        /\ \A t \in Threads :
             (calls[t].pc \in {"returned", "raised"} /\ iskeyword(calls[t].request))
               => IF calls[t].help = "text"
                  THEN calls[t].result =
                         keyword_record(calls[t].request, <<HelpText(calls[t].request)>>)
                  ELSE "docstring" \notin DOMAIN calls[t].result)
  /\ [][ (\A t \in Threads :
            (calls[t].pc = "leave" /\ calls'[t].pc \in {"returned", "raised"})
              => sys_stdout' = calls[t].before) ]_vars

\* help raised SystemExit in a process whose standard output is a file: the
\* exception left resolve_symbol and standard output is the file again.
C30_Witness ==
  /\ calls[1].pc = "raised"
  /\ calls[1].help = "SystemExit"
  /\ calls[1].before = Redirected
  /\ sys_stdout = Redirected
  /\ calls[2].pc = "idle"

\* _resolve_dotted_path(path) run without interruption from iteration i on,
\* against the registry mods: what the call returns and the registry after.
RECURSIVE _resolve_dotted_path(_, _, _, _)
_resolve_dotted_path(parts, n, mods, names) ==
  IF n = 0
  THEN Bind(builtin_root(parts, mods, names),
            LAMBDA b :
              [result |-> IF b.kind \in {"absent", "missing"}
                          THEN handle("ImportError", could_not_resolve(parts))
                          ELSE b.result,
               mods |-> b.mods])
  ELSE Bind(import_descent(parts, n, mods, names),
            LAMBDA a :
              IF a.kind \in {"failed", "missing"}
              THEN _resolve_dotted_path(parts, n - 1, a.mods, names)
              ELSE [result |-> a.result, mods |-> a.mods])

\* The call c run alone against the registry mods.
run_alone(c, mods, names) ==
  IF iskeyword(c.request)
  THEN [result |-> IF c.help = "text"
                   THEN keyword_record(c.request, <<HelpText(c.request)>>)
                   ELSE handle(c.help, fault_text(c.help)),
        mods |-> mods]
  ELSE _resolve_dotted_path(normalize_symbol(c.request),
                            Len(normalize_symbol(c.request)), mods, names)

\* The registry after call a and then call b.
one_after_the_other(a, b, names) ==
  run_alone(b, run_alone(a, InitialModules, names).mods, names).mods

\* C21 (under SpecConcurrent): however two calls of resolve_symbol
\* interleave, each returns the record it returns when run alone, and the
\* registry and the binding of standard output end as they do after the two
\* calls made one after the other.
C21_NoDestructiveRace ==
  (\A t \in Threads : calls[t].pc = "returned")
    => /\ \A t \in Threads :
            calls[t].result = run_alone(calls[t], InitialModules, stdlib_names).result
       /\ sys_stdout \in {Console, Redirected}
       /\ sys_modules \in { one_after_the_other(calls[1], calls[2], stdlib_names),
                            one_after_the_other(calls[2], calls[1], stdlib_names) }

====
